---- MODULE Spec2Model ----
(***************************************************************************)
(* Model of fix_message_labels.py: a script that reads page.tsx as UTF-8   *)
(* text, replaces the old message-label block by the new one with a        *)
(* regular expression, falls back to a line scan for a literal marker when *)
(* the expression does not match, and writes the text back.                *)
(*                                                                         *)
(* Text is a sequence of tokens.  Each token stands for a fixed run of     *)
(* characters:                                                             *)
(*   "nl"  the line feed,  "cr"  the carriage return,                      *)
(*   "mk"  the literal  msg.senderType === 'staff' ? ... : ...  of line 73,*)
(*   "hd"  the opening lines that old_inbound and new_inbound share,       *)
(*   "ot"  the rest of the old block after its marker line,                *)
(*   "nt"  the rest of the new block after the shared opening,             *)
(*   "x"   any other text without a line break.                            *)
(* old_inbound escapes every regex metacharacter, so it matches exactly    *)
(* one literal string; the blocks are shortened to one token per part, and *)
(* keep the relations of the literals of the source: the marker lies       *)
(* inside the old block on a later line than the first, the new block has  *)
(* no marker and no backslash, the two share their opening, and neither    *)
(* block has a proper prefix equal to a suffix of itself or of the other.  *)
(***************************************************************************)
EXTENDS Integers, Sequences, FiniteSets, TLC

VARIABLES disk, exists, linesep, pc, content, loaded, matched, nsubs, out,
          opens, writes, error, failedAt, run, disk0, exists0, prevMatched

vars == <<disk, exists, linesep, pc, content, loaded, matched, nsubs, out,
          opens, writes, error, failedAt, run, disk0, exists0, prevMatched>>

\* Bounds of the model.
MaxChunks == 3
MaxRuns == 2

\* ---------------------------------------------------------------------
\* The literals of the script.
\* ---------------------------------------------------------------------

\* The string old_inbound matches (the pattern with its escapes removed).
old_inbound == <<"hd", "nl", "mk", "nl", "ot">>

\* A replacement that still carries the old block in front of its own text.
new_inbound_keeps_old == <<"hd", "nl", "mk", "nl", "ot", "nt">>

\* The replacement; it has no backslash, so re.sub inserts it as it is.
new_inbound == <<"hd", "nl", "nt">>

\* The literal the line scan looks for.
marker == <<"mk">>

\* ---------------------------------------------------------------------
\* Text file layer of open(..., encoding='utf-8') with newline=None.
\* ---------------------------------------------------------------------

RECURSIVE Decode(_)
\* Reading translates "\r\n", "\r" and "\n" to "\n".
Decode(bytes) ==
    IF bytes = <<>> THEN <<>>
    ELSE IF Head(bytes) = "cr"
         THEN IF Len(bytes) >= 2 /\ bytes[2] = "nl"
              THEN <<"nl">> \o Decode(SubSeq(bytes, 3, Len(bytes)))
              ELSE <<"nl">> \o Decode(Tail(bytes))
         ELSE <<Head(bytes)>> \o Decode(Tail(bytes))

RECURSIVE Encode(_, _)
\* Writing translates every "\n" to the line separator of the platform.
Encode(text, sep) ==
    IF text = <<>> THEN <<>>
    ELSE IF Head(text) = "nl"
         THEN sep \o Encode(Tail(text), sep)
         ELSE <<Head(text)>> \o Encode(Tail(text), sep)

\* ---------------------------------------------------------------------
\* re.search and re.sub for a pattern that is a literal string.
\* ---------------------------------------------------------------------

MatchAt(pat, s, i) ==
    /\ i >= 1
    /\ i + Len(pat) - 1 <= Len(s)
    /\ SubSeq(s, i, i + Len(pat) - 1) = pat

re_search(pat, s) == \E i \in 1..Len(s) : MatchAt(pat, s, i)

RECURSIVE SubFrom(_, _, _, _)
\* The scan of re.sub / re.subn from position i: the pair of the text
\* produced and the number of substitutions made.  Matches are taken
\* leftmost first and do not overlap; count=0 replaces every one.
SubFrom(pat, repl, s, i) ==
    IF i > Len(s) THEN <<<<>>, 0>>
    ELSE IF MatchAt(pat, s, i)
         THEN LET rest == SubFrom(pat, repl, s, i + Len(pat))
              IN  <<repl \o rest[1], rest[2] + 1>>
         ELSE LET rest == SubFrom(pat, repl, s, i + 1)
              IN  <<<<s[i]>> \o rest[1], rest[2]>>

\* re.subn with count=1: only the leftmost match is replaced.
re_subn_first(pat, repl, s) ==
    IF \E i \in 1..Len(s) : MatchAt(pat, s, i)
    THEN LET i == CHOOSE k \in 1..Len(s) :
                      /\ MatchAt(pat, s, k)
                      /\ \A m \in 1..(k - 1) : ~MatchAt(pat, s, m)
         IN  <<SubSeq(s, 1, i - 1) \o repl \o SubSeq(s, i + Len(pat), Len(s)), 1>>
    ELSE <<s, 0>>

re_subn(pat, repl, s) == SubFrom(pat, repl, s, 1)

\* The replacement assigned in place of the text instead of substituted.
re_sub_whole(pat, repl, s) == repl

\* re.sub with count=1.
re_sub_first(pat, repl, s) == re_subn_first(pat, repl, s)[1]

re_sub(pat, repl, s) == re_subn(pat, repl, s)[1]

\* ---------------------------------------------------------------------
\* The line scan of the else branch.
\* ---------------------------------------------------------------------

RECURSIVE split(_)
\* content.split('\n'): the lines between the line feeds, empty ones kept.
split(s) ==
    IF \A j \in 1..Len(s) : s[j] # "nl" THEN <<s>>
    ELSE LET j == CHOOSE k \in 1..Len(s) :
                      /\ s[k] = "nl"
                      /\ \A m \in 1..(k - 1) : s[m] # "nl"
         IN  <<SubSeq(s, 1, j - 1)>> \o split(SubSeq(s, j + 1, Len(s)))

\* The test  marker in line.
InLine(sub, line) == \E i \in 1..Len(line) : MatchAt(sub, line, i)

Msg(m, k) == [msg |-> m, line |-> k]

RECURSIVE ScanFrom_zero(_, _)
\* The scan printing the 0-based index i of enumerate.
ScanFrom_zero(lines, i) ==
    IF i >= Len(lines) THEN <<>>
    ELSE IF InLine(marker, lines[i + 1])
         THEN <<Msg("found_at_line", i)>>
         ELSE ScanFrom_zero(lines, i + 1)

RECURSIVE ScanFrom(_, _)
\* for i, line in enumerate(lines): print the first hit as i+1 and break.
\* i is the 0-based index of enumerate; nothing is printed without a hit.
ScanFrom(lines, i) ==
    IF i >= Len(lines) THEN <<>>
    ELSE IF InLine(marker, lines[i + 1])
         THEN <<Msg("found_at_line", i + 1)>>
         ELSE ScanFrom(lines, i + 1)

\* The scan with an else clause on the for loop that reports a miss.
LineSearch_else(text) ==
    IF ScanFrom(split(text), 0) = <<>>
    THEN <<Msg("marker_not_found", 0)>>
    ELSE ScanFrom(split(text), 0)

\* Lines 71-75.
LineSearch(text) == ScanFrom(split(text), 0)

\* ---------------------------------------------------------------------
\* The files the script may find at its path.
\* ---------------------------------------------------------------------

RECURSIVE Flatten(_)
Flatten(ss) == IF ss = <<>> THEN <<>> ELSE Head(ss) \o Flatten(Tail(ss))

\* Pieces a file is made of: single tokens, the old block with either kind
\* of line ending, and the two halves of the old block, which give a
\* damaged block when something stands between them.
Chunks ==
    { <<"x">>, <<"nl">>, <<"cr">>, <<"mk">>,
      old_inbound,
      <<"hd", "cr", "nl", "mk", "cr", "nl", "ot">>,
      <<"hd", "nl">>,
      <<"mk", "nl", "ot">> }

Files == UNION { { Flatten(cs) : cs \in [1..n -> Chunks] } : n \in 0..MaxChunks }

LineSeps == { <<"nl">>, <<"cr", "nl">> }

\* ---------------------------------------------------------------------
\* The script.
\* ---------------------------------------------------------------------

Init ==
    /\ exists \in BOOLEAN
    /\ disk \in (IF exists THEN Files ELSE {<<>>})
    /\ linesep \in LineSeps
    /\ pc = "start"
    /\ content = <<>>
    /\ loaded = <<>>
    /\ matched = FALSE
    /\ nsubs = 0
    /\ out = <<>>
    /\ opens = 0
    /\ writes = 0
    /\ error = "none"
    /\ failedAt = 0
    /\ run = 1
    /\ disk0 = disk
    /\ exists0 = exists
    /\ prevMatched = FALSE

\* Lines 4-5: open the file for reading and read all of it.
Load ==
    /\ pc = "start"
    /\ exists
    /\ content' = Decode(disk)
    /\ loaded' = Decode(disk)
    /\ pc' = "loaded"
    /\ UNCHANGED <<disk, exists, linesep, matched, nsubs, out, opens, writes,
                   error, failedAt, run, disk0, exists0, prevMatched>>

\* The read wrapped in try/except that goes on with an empty text.
LoadFail_swallowed ==
    /\ pc = "start"
    /\ \E e \in (IF exists THEN {"PermissionError", "UnicodeDecodeError"}
                           ELSE {"FileNotFoundError"}) : error' = e
    /\ failedAt' = 4
    /\ content' = <<>>
    /\ loaded' = <<>>
    /\ pc' = "loaded"
    /\ UNCHANGED <<disk, exists, linesep, matched, nsubs, out, opens, writes,
                   run, disk0, exists0, prevMatched>>

\* Lines 4-5 raising: no file, no permission, or bytes that are not UTF-8.
\* The exception is not caught, so the script ends here.
LoadFail ==
    /\ pc = "start"
    /\ \E e \in (IF exists THEN {"PermissionError", "UnicodeDecodeError"}
                           ELSE {"FileNotFoundError"}) : error' = e
    /\ failedAt' = 4
    /\ pc' = "crashed"
    /\ UNCHANGED <<disk, exists, linesep, content, loaded, matched, nsubs,
                   out, opens, writes, run, disk0, exists0, prevMatched>>

\* Lines 65-67: the pattern is found; substitute and report.
MatchReplace ==
    /\ pc = "loaded"
    /\ re_search(old_inbound, content)
    /\ content' = re_sub(old_inbound, new_inbound, content)
    /\ nsubs' = re_subn(old_inbound, new_inbound, content)[2]
    /\ matched' = TRUE
    /\ out' = Append(out, Msg("matched_and_replaced", 0))
    /\ pc' = "branched"
    /\ UNCHANGED <<disk, exists, linesep, loaded, opens, writes, error,
                   failedAt, run,
                   disk0, exists0, prevMatched>>

\* Lines 68-75: the pattern is not found; warn and scan the lines.
NotFound ==
    /\ pc = "loaded"
    /\ ~re_search(old_inbound, content)
    /\ out' = Append(out, Msg("pattern_not_found", 0)) \o LineSearch(content)
    /\ pc' = "branched"
    /\ UNCHANGED <<disk, exists, linesep, content, loaded, matched, nsubs,
                   opens, writes, error, failedAt, run, disk0, exists0, prevMatched>>

\* The write skipped when nothing was replaced.
OpenWrite_if_changed ==
    /\ pc = "branched"
    /\ IF matched
       THEN /\ opens' = opens + 1
            /\ disk' = <<>>
            /\ exists' = TRUE
            /\ pc' = "opened"
       ELSE /\ pc' = "written"
            /\ UNCHANGED <<opens, disk, exists>>
    /\ UNCHANGED <<linesep, content, loaded, matched, nsubs, out, writes,
                   error, failedAt, run, disk0, exists0, prevMatched>>

\* Line 78: open(..., 'w') creates the file or truncates it.
OpenWrite ==
    /\ pc = "branched"
    /\ opens' = opens + 1
    /\ disk' = <<>>
    /\ exists' = TRUE
    /\ pc' = "opened"
    /\ UNCHANGED <<linesep, content, loaded, matched, nsubs, out, writes,
                   error, failedAt, run, disk0, exists0, prevMatched>>

\* Line 78 raising: the file cannot be opened for writing.
OpenWriteFail ==
    /\ pc = "branched"
    /\ opens' = opens + 1
    /\ error' = "PermissionError"
    /\ failedAt' = 78
    /\ pc' = "crashed"
    /\ UNCHANGED <<disk, exists, linesep, content, loaded, matched, nsubs,
                   out, writes, run, disk0, exists0, prevMatched>>

\* The text written with print(content, file=f): a line feed is appended.
WriteClose_trailing_newline ==
    /\ pc = "opened"
    /\ disk' = Encode(content \o <<"nl">>, linesep)
    /\ writes' = writes + 1
    /\ pc' = "written"
    /\ UNCHANGED <<exists, linesep, content, loaded, matched, nsubs, out,
                   opens, error, failedAt, run, disk0, exists0, prevMatched>>

\* Line 79 and the close at the end of the with block.
WriteClose ==
    /\ pc = "opened"
    /\ disk' = Encode(content, linesep)
    /\ writes' = writes + 1
    /\ pc' = "written"
    /\ UNCHANGED <<exists, linesep, content, loaded, matched, nsubs, out,
                   opens, error, failedAt, run, disk0, exists0, prevMatched>>

\* A failed write that puts the bytes of before the run back.
WriteFail_restores ==
    /\ pc = "opened"
    /\ disk' = disk0
    /\ error' = "OSError"
    /\ failedAt' = 79
    /\ pc' = "crashed"
    /\ UNCHANGED <<exists, linesep, content, loaded, matched, nsubs, out,
                   opens, writes, run, disk0, exists0, prevMatched>>

\* Line 79 or the close raising: some prefix of the data reached the file.
WriteFail ==
    /\ pc = "opened"
    /\ \E n \in 0..Len(Encode(content, linesep)) :
           disk' = SubSeq(Encode(content, linesep), 1, n)
    /\ error' = "OSError"
    /\ failedAt' = 79
    /\ pc' = "crashed"
    /\ UNCHANGED <<exists, linesep, content, loaded, matched, nsubs, out,
                   opens, writes, run, disk0, exists0, prevMatched>>

\* Line 81.
PrintDone ==
    /\ pc = "written"
    /\ out' = Append(out, Msg("done", 0))
    /\ pc' = "done"
    /\ UNCHANGED <<disk, exists, linesep, content, loaded, matched, nsubs,
                   opens, writes, error, failedAt, run, disk0, exists0, prevMatched>>

\* The script is started again on the file the finished run left.
Rerun ==
    /\ pc = "done"
    /\ run < MaxRuns
    /\ run' = run + 1
    /\ pc' = "start"
    /\ content' = <<>>
    /\ loaded' = <<>>
    /\ matched' = FALSE
    /\ nsubs' = 0
    /\ out' = <<>>
    /\ opens' = 0
    /\ writes' = 0
    /\ disk0' = disk
    /\ exists0' = exists
    /\ prevMatched' = matched
    /\ UNCHANGED <<disk, exists, linesep, error, failedAt>>

Next ==
    \/ Load
    \/ LoadFail
    \/ MatchReplace
    \/ NotFound
    \/ OpenWrite
    \/ OpenWriteFail
    \/ WriteClose
    \/ WriteFail
    \/ PrintDone
    \/ Rerun

Spec == Init /\ [][Next]_vars

\* ---------------------------------------------------------------------
\* Notions the properties are stated in.
\* ---------------------------------------------------------------------

\* The positions at which sub occurs in s.
Occ(sub, s) == { i \in 1..Len(s) : MatchAt(sub, s, i) }

\* The run has taken one of the two branches of the if at line 65.
Branched ==
    \/ pc \in {"branched", "opened", "written", "done"}
    \/ pc = "crashed" /\ failedAt \in {78, 79}

\* What the line scan printed: every message but the three fixed ones.
ScanReport ==
    SelectSeq(out, LAMBDA m :
        m.msg \notin {"matched_and_replaced", "pattern_not_found", "done"})

\* The branch messages printed.
BranchMsgs ==
    SelectSeq(out, LAMBDA m :
        m.msg \in {"matched_and_replaced", "pattern_not_found"})

DoneMsgs == SelectSeq(out, LAMBDA m : m.msg = "done")

\* The file uses the line separator of the platform at every line end.
NativeEol(bytes) == Encode(Decode(bytes), linesep) = bytes

\* The 1-based number of the line that holds the first marker of s.
FirstMarkerLine(s) ==
    LET p == CHOOSE i \in Occ(marker, s) : \A j \in Occ(marker, s) : i <= j
    IN  1 + Cardinality({ j \in 1..(p - 1) : s[j] = "nl" })

\* Where position j of the loaded text lies in the text after the
\* substitution, every old block before j having become a new block.
Shift(j) ==
    j + (Len(new_inbound) - Len(old_inbound))
          * Cardinality({ q \in Occ(old_inbound, loaded) : q < j })

\* Position j of the loaded text lies inside an occurrence of the old block.
Covered(j) ==
    \E q \in Occ(old_inbound, loaded) : q <= j /\ j < q + Len(old_inbound)

\* ---------------------------------------------------------------------
\* Properties.
\* ---------------------------------------------------------------------

\* C1 as stated: after a completed run the bytes of the file differ from
\* the bytes before the run if and only if the pattern matched.
C1_DiskChangesIffMatched ==
    pc = "done" => ((disk # disk0) <=> matched)

\* C1 as amended: after a completed run the text written differs from the
\* text read if and only if the pattern matched; a match always changes the
\* bytes of the file; without a match the file decodes to the text that was
\* read, and its bytes are the same when every line end of the file already
\* was the line separator of the platform.
C1_TextChangesIffMatched ==
    pc = "done" =>
        /\ (content # loaded) <=> matched
        /\ matched => disk # disk0
        /\ ~matched => Decode(disk) = loaded
        /\ (~matched /\ NativeEol(disk0)) => disk = disk0

C1_Witness ==
    /\ pc = "done"
    /\ ~matched
    /\ InLine(marker, content)
    /\ NativeEol(disk0)
    /\ Len(disk0) >= 3
    /\ disk = disk0

\* C2: when the pattern matched, the text written has the replacement
\* verbatim at the place of every match, and every character outside the
\* matched blocks is unchanged, before, between and after them.
C2_ReplacementInPlace ==
    (Branched /\ matched) =>
        /\ \A p \in Occ(old_inbound, loaded) : MatchAt(new_inbound, content, Shift(p))
        /\ \A j \in 1..Len(loaded) :
               ~Covered(j) => /\ Shift(j) \in 1..Len(content)
                              /\ content[Shift(j)] = loaded[j]
        /\ pc = "done" => disk = Encode(content, linesep)

C2_Witness ==
    /\ pc = "done"
    /\ matched
    /\ \E p \in Occ(old_inbound, loaded) :
           /\ p > 1
           /\ p + Len(old_inbound) <= Len(loaded)

\* C3: after a match the pattern no longer matches the text written, so a
\* second run takes the not-found branch and leaves the file as it is.
C3_SecondRunNoOp ==
    /\ (Branched /\ matched) => ~re_search(old_inbound, content)
    /\ (run >= 2 /\ prevMatched /\ Branched) => ~matched
    /\ (run >= 2 /\ prevMatched /\ pc = "done") =>
           /\ disk = disk0
           /\ content = loaded

C3_Witness ==
    /\ run >= 2
    /\ prevMatched
    /\ pc = "done"
    /\ BranchMsgs = <<Msg("pattern_not_found", 0)>>

\* C4 as stated: whenever the pattern matches, exactly one replacement is
\* made, also in a text that holds the old block more than once.
C4_ExactlyOneReplacement ==
    (Branched /\ matched) => nsubs = 1

\* C4 as amended: whenever the pattern matches, one replacement is made for
\* each occurrence of the old block: exactly one when the text holds the
\* block once, and as many as there are blocks when it holds more.
C4_OneReplacementPerBlock ==
    (Branched /\ matched) =>
        /\ nsubs >= 1
        /\ nsubs = Cardinality(Occ(old_inbound, loaded))

C4_Witness ==
    /\ pc = "done"
    /\ matched
    /\ nsubs = 2

\* C5: when the pattern matches, every occurrence of it is replaced, not
\* only the first, and the result is what the file holds after the run.
C5_AllOccurrencesReplaced ==
    (Branched /\ matched) =>
        /\ Cardinality(Occ(new_inbound, content))
               = Cardinality(Occ(new_inbound, loaded))
                   + Cardinality(Occ(old_inbound, loaded))
        /\ Len(content) = Len(loaded)
               + (Len(new_inbound) - Len(old_inbound))
                     * Cardinality(Occ(old_inbound, loaded))
        /\ Occ(old_inbound, content) = {}
        /\ pc = "done" => Decode(disk) = content

C5_Witness ==
    /\ pc = "done"
    /\ matched
    /\ Cardinality(Occ(old_inbound, loaded)) >= 2
    /\ Cardinality(Occ(new_inbound, Decode(disk))) >= 2

\* C6: without a match and with the marker in the text, the scan reports
\* exactly one line number, the 1-based number of the first line that holds
\* the marker; after a match the scan reports nothing.
C6_FirstMarkerLineReported ==
    /\ (Branched /\ ~matched /\ InLine(marker, content)) =>
           ScanReport = <<Msg("found_at_line", FirstMarkerLine(content))>>
    /\ (Branched /\ matched) => ScanReport = <<>>

C6_Witness ==
    /\ pc = "done"
    /\ ~matched
    /\ Cardinality(Occ(marker, content)) >= 2
    /\ Len(ScanReport) = 1
    /\ ScanReport[1].line >= 2

\* C7 as stated: without a match and without the marker, the scan prints
\* a report that the marker was not found.
C7_NotFoundReported ==
    (Branched /\ ~matched /\ ~InLine(marker, content)) => ScanReport # <<>>

\* C7 as amended: without a match and without the marker, the scan prints
\* nothing; the pattern-not-found warning is the only message of the branch.
C7_ScanSilentWithoutMarker ==
    (Branched /\ ~matched /\ ~InLine(marker, content)) =>
        /\ ScanReport = <<>>
        /\ BranchMsgs = <<Msg("pattern_not_found", 0)>>
        /\ out \in { <<Msg("pattern_not_found", 0)>>,
                     <<Msg("pattern_not_found", 0), Msg("done", 0)>> }

C7_Witness ==
    /\ pc = "done"
    /\ ~matched
    /\ ~InLine(marker, content)
    /\ Len(content) >= 2
    /\ out = <<Msg("pattern_not_found", 0), Msg("done", 0)>>

\* C8: when the read fails the run ends there: the file is never opened
\* for writing, it is neither created nor changed, and nothing is printed.
C8_ReadFailureWritesNothing ==
    failedAt = 4 =>
        /\ pc = "crashed"
        /\ opens = 0
        /\ writes = 0
        /\ exists = exists0
        /\ disk = disk0
        /\ out = <<>>

C8_Witness ==
    /\ failedAt = 4
    /\ error = "FileNotFoundError"
    /\ ~exists
    /\ pc = "crashed"

\* C9: the steps run in the order read, branch, write, completion message:
\* nothing is printed or opened before the read; exactly one branch message
\* is printed, and it is printed before the file is opened for writing; the
\* file is written at most once, and exactly once in a run that completes,
\* whichever branch was taken; the completion message comes last and only
\* after the write has completed.
C9_StrictOrder ==
    /\ pc \in {"start", "loaded"} => (out = <<>> /\ opens = 0 /\ writes = 0)
    /\ opens <= 1
    /\ writes <= opens
    /\ opens = 1 =>
           /\ Len(BranchMsgs) = 1
           /\ out[1] = BranchMsgs[1]
           /\ (out[1].msg = "matched_and_replaced") <=> matched
    /\ pc = "branched" => (Len(BranchMsgs) = 1 /\ opens = 0)
    /\ pc \in {"written", "done"} => writes = 1
    /\ DoneMsgs # <<>> =>
           /\ pc = "done"
           /\ writes = 1
           /\ Len(DoneMsgs) = 1
           /\ out[Len(out)].msg = "done"
           /\ disk = Encode(content, linesep)
    /\ pc = "done" => DoneMsgs # <<>>

C9_Witness ==
    /\ pc = "done"
    /\ ~matched
    /\ writes = 1
    /\ Len(out) = 3

\* C10: when the save fails the run ends without the completion message,
\* the write is attempted once only, and the content of before the run is
\* not put back: a failed open leaves the file as it was, a failed write
\* leaves whatever prefix of the new text had reached the file.
C10_SaveFailureIsFatal ==
    failedAt \in {78, 79} =>
        /\ pc = "crashed"
        /\ DoneMsgs = <<>>
        /\ opens = 1
        /\ writes = 0
        /\ failedAt = 78 => (disk = disk0 /\ exists = exists0)
        /\ failedAt = 79 =>
               /\ exists
               /\ \E n \in 0..Len(Encode(content, linesep)) :
                      disk = SubSeq(Encode(content, linesep), 1, n)

C10_Witness ==
    /\ failedAt = 79
    /\ pc = "crashed"
    /\ disk # disk0
    /\ disk # Encode(content, linesep)
    /\ Len(disk) >= 1
====
